---- MODULE Spec2Model ----
(***************************************************************************)
(* A model of thabbott/deflicker: the library routines squareFilter,      *)
(* meanRGB and relaxToMean of libdeflicker.py and the filename filter and *)
(* sort loop of deflicker.py.                                              *)
(*                                                                         *)
(* Floating point numbers are modelled as exact extended rationals: a     *)
(* pair <<n, d>> in lowest terms with d >= 0, where d = 0 gives the three *)
(* IEEE specials NaN = <<0,0>>, +inf = <<1,0>> and -inf = <<-1,0>>.  The  *)
(* arithmetic below follows IEEE 754 as numpy applies it (x/0 = +-inf,    *)
(* 0/0 = NaN, 0*inf = NaN, comparisons with NaN false); rounding error is *)
(* not modelled.                                                           *)
(***************************************************************************)
EXTENDS Integers, Sequences, FiniteSets

VARIABLES
    img,      \* relaxToMean/meanRGB: img[c][p], channel c in 0..nc-1, pixel p
    img0,     \* the image as it was passed to the first call (history)
    rgb,      \* relaxToMean: target means, one per channel
    rgbi,     \* relaxToMean: current means (local of relaxToMean)
    r,        \* relaxToMean: the ratio computed at line 120 (local)
    ii,       \* loop index: relaxToMean line 114, driver line 67, meanRGB argument
    iters,    \* relaxToMean: iterations of the while loop run per channel (history)
    call,     \* number of the relaxToMean call in progress (1 or 2)
    pc,       \* position in the routine being run
    sig,      \* squareFilter: the input signal
    w,        \* squareFilter: the filter width
    ret,      \* value returned by squareFilter / meanRGB
    listing,  \* driver: what os.listdir returned (history)
    f,        \* driver: the list of file names
    n         \* driver: the list of extracted numbers

vars == <<img, img0, rgb, rgbi, r, ii, iters, call, pc, sig, w, ret, listing, f, n>>

relaxVars == <<img, img0, rgb, rgbi, r, iters, call>>
filterVars == <<sig, w>>
driverVars == <<listing, f, n>>

-----------------------------------------------------------------------------
(* Bounds of the model *)

\* the while loop's iteration counter stops counting here
MaxIter == 3
\* np.isclose's tolerances, coarsened: rtol = 1/RTolInv, atol = 1/ATolInv
RTolInv == 16
ATolInv == 64
\* longest signal and widest filter given to squareFilter
MaxLen == 5
MaxW == 5
\* longest directory listing
MaxFiles == 4

\* the number of attributes relaxToMean relaxes: range(0,3)
LoopChannels == 3

-----------------------------------------------------------------------------
(* Floating point as extended rationals *)

Abs(x) == IF x < 0 THEN -x ELSE x
Sgn(x) == IF x < 0 THEN -1 ELSE IF x > 0 THEN 1 ELSE 0

RECURSIVE GCD(_, _)
GCD(a, b) == IF b = 0 THEN a ELSE GCD(b, a % b)

Rat(num, den) ==
    IF den = 0 THEN <<Sgn(num), 0>>
    ELSE LET s == Sgn(den)
             g == GCD(Abs(num), Abs(den))
         IN  <<(s * num) \div g, (s * den) \div g>>

NaN == <<0, 0>>
Zero == <<0, 1>>
One == <<1, 1>>

IsNaN(x) == x = NaN
IsFinite(x) == x[2] # 0

RMul(a, b) == Rat(a[1] * b[1], a[2] * b[2])
RDiv(a, b) == Rat(a[1] * b[2], a[2] * b[1])
RNeg(a) == <<-a[1], a[2]>>
RAbs(a) == <<Abs(a[1]), a[2]>>
RAdd(a, b) ==
    IF a[2] = 0 /\ b[2] = 0
    THEN (IF a = b THEN a ELSE NaN)
    ELSE Rat(a[1] * b[2] + b[1] * a[2], a[2] * b[2])
RSub(a, b) == RAdd(a, RNeg(b))

\* a <= b, false when either is NaN
RLe(a, b) ==
    /\ ~IsNaN(a)
    /\ ~IsNaN(b)
    /\ IF a[2] = 0 /\ b[2] = 0 THEN a[1] <= b[1]
       ELSE a[1] * b[2] <= b[1] * a[2]
RLt(a, b) == RLe(a, b) /\ a # b

\* np.maximum in the place of np.minimum
Maximum(a, b) ==
    IF IsNaN(a) \/ IsNaN(b) THEN NaN
    ELSE IF RLe(a, b) THEN b ELSE a

\* np.minimum(a, b): propagates NaN
Minimum(a, b) ==
    IF IsNaN(a) \/ IsNaN(b) THEN NaN
    ELSE IF RLe(a, b) THEN a ELSE b

rtol == Rat(1, RTolInv)
atol == Rat(1, ATolInv)

\* np.isclose(a, b): |a - b| <= atol + rtol * |b| for finite values, equality
\* for infinities, never for NaN
IsClose(a, b) ==
    IF IsFinite(a) /\ IsFinite(b)
    THEN RLe(RAbs(RSub(a, b)), RAdd(atol, RMul(rtol, RAbs(b))))
    ELSE ~IsNaN(a) /\ ~IsNaN(b) /\ a = b

RECURSIVE RSum(_)
RSum(s) == IF s = <<>> THEN Zero ELSE RAdd(Head(s), RSum(Tail(s)))

\* np.mean of a sequence
Mean(s) == RDiv(RSum(s), <<Len(s), 1>>)

-----------------------------------------------------------------------------
(* meanRGB *)

NumChannels(image) == Cardinality(DOMAIN image)

\* np.mean(img[:,:,i])
SliceMean(image, i) == Mean(image[i])

\* meanRGB with the slice index dropped: always the mean of slice 0
MeanRGBFirstSlice(image, i) ==
    IF i < 0
    THEN [kind |-> "vector",
          val |-> [c \in DOMAIN image |-> SliceMean(image, c)]]
    ELSE IF i \in DOMAIN image
         THEN [kind |-> "scalar", val |-> SliceMean(image, 0)]
         ELSE [kind |-> "IndexError", val |-> NaN]

\* meanRGB with the test ii <= 0 in the place of ii < 0
MeanRGBZeroIsDefault(image, i) ==
    IF i <= 0
    THEN [kind |-> "vector",
          val |-> [c \in DOMAIN image |-> SliceMean(image, c)]]
    ELSE IF i \in DOMAIN image
         THEN [kind |-> "scalar", val |-> SliceMean(image, i)]
         ELSE [kind |-> "IndexError", val |-> NaN]

\* meanRGB(img, ii): the vector of all means for ii < 0, the mean of slice ii
\* otherwise, IndexError when there is no slice ii
MeanRGB(image, i) ==
    IF i < 0
    THEN [kind |-> "vector",
          val |-> [c \in DOMAIN image |-> SliceMean(image, c)]]
    ELSE IF i \in DOMAIN image
         THEN [kind |-> "scalar", val |-> SliceMean(image, i)]
         ELSE [kind |-> "IndexError", val |-> NaN]

-----------------------------------------------------------------------------
(* relaxToMean *)

\* line 120: r = rgb[ii] / rgbi[ii]
Ratio(target, mean) == RDiv(target, mean)

\* the scaling applied to the first pixel only
RelaxSliceFirstPixel(slice, ratio) ==
    [p \in DOMAIN slice |->
        IF p = 1 THEN Minimum(One, RMul(slice[p], ratio)) ELSE slice[p]]

\* line 122: np.minimum(1., img[:,:,ii] * r)
RelaxSlice(slice, ratio) ==
    [p \in DOMAIN slice |-> Minimum(One, RMul(slice[p], ratio))]

\* the iteration count, which stops counting at MaxIter
Count(k) == IF k < MaxIter THEN k + 1 ELSE k

\* the pixel values of one attribute over the (flattened) pixel grid
Slices ==
    { <<Zero, Zero>>, <<Rat(1, 2), Rat(1, 2)>>, <<Rat(1, 4), One>> }

\* the target means
Targets == { Rat(-1, 2), Rat(1, 2), Rat(3, 4), Rat(3, 2) }

\* images have one attribute less than, as many as, or one more than the loop
\* of relaxToMean relaxes
ChannelCounts == { LoopChannels - 1, LoopChannels, LoopChannels + 1 }

Images == UNION { [0 .. (nc - 1) -> Slices] : nc \in ChannelCounts }

InitOthersRelax ==
    /\ sig = <<>> /\ w = 0 /\ ret = NaN
    /\ listing = <<>> /\ f = <<>> /\ n = <<>>

InitRelax ==
    /\ img \in Images
    /\ img0 = img
    /\ rgb \in [DOMAIN img -> Targets]
    /\ rgbi = <<>>
    /\ r = NaN
    /\ ii = 0
    /\ iters = [c \in DOMAIN img |-> 0]
    /\ call = 1
    /\ pc = "call"
    /\ InitOthersRelax

\* lines 110, 114: rgbi = meanRGB(img); the for loop starts at ii = 0
Enter ==
    /\ pc = "call"
    /\ rgbi' = MeanRGB(img, -1).val
    /\ ii' = 0
    /\ pc' = "while"
    /\ UNCHANGED <<img, img0, rgb, r, iters, call, filterVars, ret, driverVars>>

\* line 117: rgbi[ii] on an image with fewer than three attributes
WhileIndexError ==
    /\ pc = "while"
    /\ ii \notin DOMAIN rgbi
    /\ pc' = "IndexError"
    /\ UNCHANGED <<relaxVars, ii, filterVars, ret, driverVars>>

\* line 117: the mean is close to the target; on to the next attribute (line 114)
WhileExit ==
    /\ pc = "while"
    /\ ii \in DOMAIN rgbi
    /\ IsClose(rgbi[ii], rgb[ii])
    /\ IF ii + 1 < LoopChannels
       THEN ii' = ii + 1 /\ pc' = "while"
       ELSE ii' = ii /\ pc' = "done"
    /\ UNCHANGED <<relaxVars, filterVars, ret, driverVars>>

\* line 117: the mean is not close to the target; into the loop body
WhileEnter ==
    /\ pc = "while"
    /\ ii \in DOMAIN rgbi
    /\ ~IsClose(rgbi[ii], rgb[ii])
    /\ pc' = "body"
    /\ UNCHANGED <<relaxVars, ii, filterVars, ret, driverVars>>

\* lines 120-124: compute the ratio, relax the image, update the average
Body ==
    /\ pc = "body"
    /\ r' = Ratio(rgb[ii], rgbi[ii])
    /\ img' = [img EXCEPT ![ii] = RelaxSlice(img[ii], r')]
    /\ rgbi' = [rgbi EXCEPT ![ii] = MeanRGB(img', ii).val]
    /\ iters' = [iters EXCEPT ![ii] = Count(iters[ii])]
    /\ pc' = "while"
    /\ UNCHANGED <<img0, rgb, ii, call, filterVars, ret, driverVars>>

\* relaxToMean is called again on the image it has returned, with the same target
ReCall ==
    /\ pc = "done"
    /\ call = 1
    /\ call' = 2
    /\ rgbi' = <<>>
    /\ r' = NaN
    /\ ii' = 0
    /\ pc' = "call"
    /\ UNCHANGED <<img, img0, rgb, iters, filterVars, ret, driverVars>>

NextRelax ==
    \/ Enter
    \/ WhileIndexError
    \/ WhileExit
    \/ WhileEnter
    \/ Body
    \/ ReCall

SpecRelax == InitRelax /\ [][NextRelax]_vars

\* the interpreter runs the next statement whenever there is one: weak
\* fairness of NextRelax, stated in FairRelax below

\* the same routine on uniform mid-grey images, every attribute with the same
\* target
InitGrey ==
    /\ InitRelax
    /\ \A c \in DOMAIN img : img[c] = <<Rat(1, 2), Rat(1, 2)>>
    /\ \A c, d \in DOMAIN img : rgb[c] = rgb[d]

FairRelax == InitGrey /\ [][NextRelax]_vars /\ WF_vars(NextRelax)

-----------------------------------------------------------------------------
(* meanRGB called on its own *)

\* the slice indices tried run from -MaxIndex to MaxIndex
MaxIndex == 5

InitMean ==
    /\ img \in Images
    /\ img0 = img
    /\ ii \in (-MaxIndex) .. MaxIndex
    /\ ret = NaN
    /\ pc = "call"
    /\ rgb = <<>> /\ rgbi = <<>> /\ r = NaN /\ iters = <<>> /\ call = 0
    /\ sig = <<>> /\ w = 0
    /\ listing = <<>> /\ f = <<>> /\ n = <<>>

\* lines 70-73
CallMeanRGB ==
    /\ pc = "call"
    /\ ret' = MeanRGB(img, ii)
    /\ pc' = "done"
    /\ UNCHANGED <<relaxVars, ii, filterVars, driverVars>>

NextMean == CallMeanRGB

SpecMean == InitMean /\ [][NextMean]_vars

-----------------------------------------------------------------------------
(* squareFilter *)

\* Python 2's a / b on integers
FloorDiv(a, b) == a \div b

Min(a, b) == IF a <= b THEN a ELSE b
Max(a, b) == IF a >= b THEN a ELSE b

\* Python's seq[a:b] for indices counted from 0, negative ones from the end
SliceIndex(k, len) == IF k < 0 THEN Max(k + len, 0) ELSE Min(k, len)
PySlice(s, a, b) ==
    LET lo == SliceIndex(a, Len(s))
        hi == SliceIndex(b, Len(s))
    IN  IF hi <= lo THEN <<>> ELSE SubSeq(s, lo + 1, hi)

\* np.ones(k) and np.tile(v, k)
Ones(k) == [j \in 1 .. k |-> One]
Tile(v, k) == [j \in 1 .. k |-> v]

\* element m (from 0) of the full convolution of a with k: the sum of
\* a[m - j] * k[j] over the j for which both exist
ConvolveFullAt(a, k, m) ==
    LET js == { j \in 0 .. (Len(k) - 1) : m - j >= 0 /\ m - j < Len(a) }
        terms == [j \in 0 .. (Len(k) - 1) |->
                     IF j \in js THEN RMul(a[m - j + 1], k[j + 1]) ELSE Zero]
    IN  RSum([j \in 1 .. Len(k) |-> terms[j - 1]])

\* signal.convolve(a, k, mode = 'same'): as long as a, centred in the full
\* convolution
ConvolveSame(a, k) ==
    LET start == FloorDiv(Len(k) - 1, 2)
    IN  [m \in 1 .. Len(a) |-> ConvolveFullAt(a, k, start + m - 1)]

\* lines 32-38
SquareFilter(s, width) ==
    LET win == Ones(width)
        sigp == Tile(s[1], FloorDiv(width, 2)) \o s
                    \o Tile(s[Len(s)], FloorDiv(width, 2))
        cut == PySlice(ConvolveSame(sigp, win),
                       FloorDiv(width, 2), FloorDiv(-width, 2) + 1)
    IN  [k \in 1 .. Len(cut) |-> RDiv(cut[k], RSum(win))]

\* the values of a signal
SigVals == { Rat(1, 10), Rat(1, 2), Rat(9, 10) }

Signals == UNION { [1 .. len -> SigVals] : len \in 1 .. MaxLen }

InitFilter ==
    /\ sig \in Signals
    /\ w \in 1 .. MaxW
    /\ ret = <<>>
    /\ pc = "call"
    /\ img = <<>> /\ img0 = <<>> /\ rgb = <<>> /\ rgbi = <<>> /\ r = NaN
    /\ ii = 0 /\ iters = <<>> /\ call = 0
    /\ listing = <<>> /\ f = <<>> /\ n = <<>>

CallSquareFilter ==
    /\ pc = "call"
    /\ ret' = SquareFilter(sig, w)
    /\ pc' = "done"
    /\ UNCHANGED <<relaxVars, ii, filterVars, driverVars>>

NextFilter == CallSquareFilter

SpecFilter == InitFilter /\ [][NextFilter]_vars

-----------------------------------------------------------------------------
(* The driver's list of image names (deflicker.py lines 65-77) *)

DigitChars == <<"0", "1", "2", "3", "4", "5", "6", "7", "8", "9">>
IsDigit(ch) == \E k \in DOMAIN DigitChars : DigitChars[k] = ch
DigitValue(ch) == (CHOOSE k \in DOMAIN DigitChars : DigitChars[k] = ch) - 1

\* the longest run of digits at the head of a name
RECURSIVE DigitPrefix(_)
DigitPrefix(name) ==
    IF name = <<>> \/ ~IsDigit(Head(name)) THEN <<>>
    ELSE <<Head(name)>> \o DigitPrefix(Tail(name))

\* re.search('\d+', name): the leftmost match, as long as it can be; <<>> stands
\* for None
RECURSIVE ReSearchDigits(_)
ReSearchDigits(name) ==
    IF name = <<>> THEN <<>>
    ELSE IF IsDigit(Head(name)) THEN DigitPrefix(name)
    ELSE ReSearchDigits(Tail(name))

\* int(digits)
RECURSIVE ToInt(_)
ToInt(digits) ==
    IF digits = <<>> THEN 0
    ELSE 10 * ToInt(SubSeq(digits, 1, Len(digits) - 1))
            + DigitValue(digits[Len(digits)])

\* list.pop(k), k counted from 0
Pop(s, k) == SubSeq(s, 1, k) \o SubSeq(s, k + 2, Len(s))

\* np.argsort(n): the sort is not stable, so any order of equal numbers
ArgSorts(nums) ==
    { p \in [1 .. Len(nums) -> 1 .. Len(nums)] :
        /\ \A j, k \in 1 .. Len(nums) : j # k => p[j] # p[k]
        /\ \A k \in 1 .. (Len(nums) - 1) : nums[p[k]] <= nums[p[k + 1]] }

\* the file names a directory may hold
Names ==
    { <<"a">>, <<"a", "b">>, <<"1", "a", "2">>, <<"a", "1", "2">>,
      <<"0", "2", "a">>, <<"3">>, <<"a", "1">>, <<"1", "0", "b">> }

\* os.listdir: the names of the directory, each once, in any order
Listings ==
    UNION { { l \in [1 .. len -> Names] :
                \A j, k \in 1 .. len : j # k => l[j] # l[k] } :
            len \in 0 .. MaxFiles }

InitDriver ==
    /\ listing \in Listings
    /\ f = listing
    /\ n = <<>>
    /\ ii = 0
    /\ pc = "loop"
    /\ img = <<>> /\ img0 = <<>> /\ rgb = <<>> /\ rgbi = <<>> /\ r = NaN
    /\ iters = <<>> /\ call = 0
    /\ sig = <<>> /\ w = 0 /\ ret = <<>>

\* lines 68-72: the name holds a digit
LoopMatch ==
    /\ pc = "loop"
    /\ ii < Len(f)
    /\ ReSearchDigits(f[ii + 1]) # <<>>
    /\ n' = Append(n, ToInt(ReSearchDigits(f[ii + 1])))
    /\ ii' = ii + 1
    /\ UNCHANGED <<relaxVars, pc, filterVars, ret, listing, f>>

\* the pop that also steps to the next index
LoopPopAdvance ==
    /\ pc = "loop"
    /\ ii < Len(f)
    /\ ReSearchDigits(f[ii + 1]) = <<>>
    /\ f' = Pop(f, ii)
    /\ ii' = ii + 1
    /\ UNCHANGED <<relaxVars, pc, filterVars, ret, listing, n>>

\* lines 68-74: the name holds no digit
LoopPop ==
    /\ pc = "loop"
    /\ ii < Len(f)
    /\ ReSearchDigits(f[ii + 1]) = <<>>
    /\ f' = Pop(f, ii)
    /\ UNCHANGED <<relaxVars, ii, pc, filterVars, ret, listing, n>>

\* lines 75-77: the loop is over; sort the names by their numbers
Sort ==
    /\ pc = "loop"
    /\ ii >= Len(f)
    /\ \E i \in ArgSorts(n) : f' = [k \in 1 .. Len(i) |-> f[i[k]]]
    /\ pc' = "done"
    /\ UNCHANGED <<relaxVars, ii, filterVars, ret, listing, n>>

NextDriver ==
    \/ LoopMatch
    \/ LoopPop
    \/ Sort

SpecDriver == InitDriver /\ [][NextDriver]_vars

-----------------------------------------------------------------------------
(* Properties of relaxToMean *)

InUnit(x) == RLe(Zero, x) /\ RLe(x, One)

\* attribute c has been relaxed by the call in progress
Relaxed(c) == c < LoopChannels /\ (c < ii \/ pc = "done")

\* the ratio of the first iteration for attribute c, and the slice scaled by it
Ratio0(c) == RDiv(rgb[c], Mean(img0[c]))
Scaled0(c) == [p \in DOMAIN img0[c] |-> RMul(img0[c][p], Ratio0(c))]
NoClampNeeded(c) == \A p \in DOMAIN img0[c] : RLe(Scaled0(c)[p], One)
CloseAtEntry(c) == IsClose(Mean(img0[c]), rgb[c])

\* C2: relaxToMean terminates for every image and every target vector: the
\* loop stops (converged, or with ConvergenceFailure) instead of iterating for ever
C2_RelaxTerminates == <>(pc \in {"done", "IndexError", "ConvergenceFailure"})

\* C3: every attribute value of the image stays within [0,1] after every
\* iteration of relaxToMean and in its result, for any target vector
C3_ValuesStayInUnit ==
    \A c \in DOMAIN img : \A p \in DOMAIN img[c] : InUnit(img[c][p])

\* C4: when relaxToMean returns and every target is in [0,1], the mean of every
\* channel of the image is within the tolerance of its target
C4_EveryChannelAtTarget ==
    (pc = "done" /\ \A c \in DOMAIN rgb : InUnit(rgb[c]))
        => \A c \in DOMAIN img : IsClose(SliceMean(img, c), rgb[c])

\* C5: a second call of relaxToMean on the image the first call returned, with
\* the same target, runs no iteration in any channel and changes no pixel
C5_SecondCallNoOp == [][call = 2 => (img' = img /\ iters' = iters)]_vars

C5_Witness == call = 2 /\ pc = "done" /\ \E c \in DOMAIN iters : iters[c] > 0

-----------------------------------------------------------------------------
(* Properties of meanRGB *)

-----------------------------------------------------------------------------
(* Properties of squareFilter *)

\* the signal with its first and last value replicated beyond its ends,
\* positions counted from 0
Replicated(s, j) == s[Min(Max(j, 0), Len(s) - 1) + 1]

\* the mean of the width values of the replicated signal at positions
\* i - floor(width/2) .. i + floor((width-1)/2)
WindowMean(s, width, i) ==
    LET lo == i - FloorDiv(width, 2)
    IN  RDiv(RSum([k \in 1 .. width |-> Replicated(s, lo + k - 1)]),
             <<width, 1>>)

\* C1: for every signal of length N >= 1 and every width w >= 1, squareFilter
\* returns a sequence of exactly N elements
C1_LengthPreserved == pc = "done" => Len(ret) = Len(sig)

\* C6: for every signal and every width w >= 1, element i of the result is the
\* mean of the w values of the edge-replicated signal at positions
\* i - floor(w/2) .. i + floor((w-1)/2), for every i from 0 to N - 1
C6_BoxAverage ==
    pc = "done" =>
        \A i \in 0 .. (Len(sig) - 1) :
            i < Len(ret) /\ ret[i + 1] = WindowMean(sig, w, i)

-----------------------------------------------------------------------------
(* Properties of the driver's list of image names *)

HasDigit(name) == \E k \in DOMAIN name : IsDigit(name[k])

RECURSIVE Pow10(_)
Pow10(k) == IF k = 0 THEN 1 ELSE 10 * Pow10(k - 1)

\* the number written by the digits of name at positions q .. last
RECURSIVE PlaceValueSum(_, _, _)
PlaceValueSum(name, q, last) ==
    IF q > last THEN 0
    ELSE DigitValue(name[q]) * Pow10(last - q) + PlaceValueSum(name, q + 1, last)

\* the number written by the first run of digits of a name that has a digit
NumberOf(name) ==
    LET first == CHOOSE k \in DOMAIN name :
                    IsDigit(name[k]) /\ \A j \in 1 .. (k - 1) : ~IsDigit(name[j])
        last == CHOOSE m \in first .. Len(name) :
                    /\ \A q \in first .. m : IsDigit(name[q])
                    /\ m = Len(name) \/ ~IsDigit(name[m + 1])
    IN  PlaceValueSum(name, first, last)

Kept == { listing[k] : k \in { j \in DOMAIN listing : HasDigit(listing[j]) } }

\* C8: throughout the loop the numbers stay aligned, index for index, with the
\* names kept so far; the resulting sequence holds exactly the names of the
\* listing that have a digit, each once, in ascending order of the number
\* written by their first run of digits
C8_FilterAndSort ==
    /\ pc = "loop" =>
          /\ ii <= Len(f)
          /\ Len(n) = ii
          /\ \A k \in 1 .. ii : HasDigit(f[k]) /\ n[k] = NumberOf(f[k])
    /\ pc = "done" =>
          /\ { f[k] : k \in DOMAIN f } = Kept
          /\ Len(f) = Cardinality(Kept)
          /\ \A k \in 1 .. (Len(f) - 1) : NumberOf(f[k]) <= NumberOf(f[k + 1])

C8_Witness ==
    /\ pc = "done"
    /\ listing = << <<"1", "0", "b">>, <<"3">>, <<"a">>, <<"a", "b">> >>
    /\ f = << <<"3">>, <<"1", "0", "b">> >>

====
